---- MODULE Spec2Model ----
(***************************************************************************)
(* A model of ConfluenceConnector                                          *)
(* (backend/onyx/connectors/confluence/connector.py).                      *)
(*                                                                         *)
(* The connector is a single-threaded object.  load_from_state,            *)
(* poll_source and retrieve_all_slim_documents return Python generators:   *)
(* a generator runs only while its caller pulls the next batch from it and *)
(* is suspended at a yield the rest of the time.  The position of the      *)
(* generator is the variable pc; the source's answers (the records a       *)
(* pagination returns, its exhaustion, its errors) are inputs chosen at    *)
(* the step that asks for them.                                            *)
(***************************************************************************)
EXTENDS Integers, Sequences, FiniteSets, TLC

(***************************************************************************)
(* Bounds of the model.                                                    *)
(***************************************************************************)
\* the largest configured batch_size
MaxBatchSize == 3
\* the most records (pages and attachments together) the source returns
\* during one fetch
MaxRecords == 5
\* the slice size of the slim fetch.  The program's value is 5000
\* (connector.py:69); the model scales it down: the code only ever compares
\* a list length with it and slices at it.
_SLIM_DOC_BATCH_SIZE == 2

(***************************************************************************)
(* Python values.                                                          *)
(***************************************************************************)
\* None, and the empty dict, as values of an optional field
None == "None"
EmptyDict == "{}"

\* bool(x) of an optional string or dict field: None, "" and {} are falsy
Truthy(x) == x \notin {None, EmptyDict, ""}

\* x or d
Or(x, d) == IF Truthy(x) THEN x ELSE d

\* a[:n] and a[n:] of a list
Take(a, n) == SubSeq(a, 1, IF n < Len(a) THEN n ELSE Len(a))
Drop(a, n) == SubSeq(a, n + 1, Len(a))

(***************************************************************************)
(* Query construction (__init__).                                          *)
(***************************************************************************)
\* the characters urllib.parse.quote leaves alone, among those the model uses
QuoteSafe == {"A", "B", "D", "E", "G", "N", "V", "/", "_", "-", "."}

\* the percent-encoding of the other characters the model uses
PercentEncode(c) ==
    CASE c = " " -> "%20"
      [] c = "'" -> "%27"
      [] c = "&" -> "%26"
      [] OTHER -> "%3F"

\* quote(s), s given as the tuple of its characters; the result is a string
RECURSIVE quote(_)
quote(s) ==
    IF s = <<>> THEN ""
    ELSE (IF Head(s) \in QuoteSafe THEN Head(s) ELSE PercentEncode(Head(s)))
         \o quote(Tail(s))

\* BaseCqlPageQuery with the elif branches in the wrong order: the space filter
\* is tried before the page id
BaseCqlPageQuerySpaceFirst(space, page_id, index_recursively, cql_query) ==
    IF Truthy(cql_query) THEN cql_query
    ELSE IF space # <<>> THEN "type=page" \o " and space='" \o quote(space) \o "'"
    ELSE IF Truthy(page_id) THEN
        IF index_recursively
        THEN "type=page" \o " and (ancestor='" \o page_id \o "' or id='" \o page_id \o "')"
        ELSE "type=page" \o " and id='" \o page_id \o "'"
    ELSE "type=page"

\* base_cql_page_query as __init__ computes it
BaseCqlPageQuery(space, page_id, index_recursively, cql_query) ==
    IF Truthy(cql_query) THEN cql_query
    ELSE IF Truthy(page_id) THEN
        IF index_recursively
        THEN "type=page" \o " and (ancestor='" \o page_id \o "' or id='" \o page_id \o "')"
        ELSE "type=page" \o " and id='" \o page_id \o "'"
    ELSE IF space # <<>> THEN "type=page" \o " and space='" \o quote(space) \o "'"
    ELSE "type=page"

\* the constructor arguments the model draws from
Spaces == {<<>>, <<"E", "N", "G">>, <<"D", " ", "V">>, <<"A", "/", "B">>, <<"A", "&", "B">>}
PageIds == {"", "123"}
CqlQueries == {None, "", "type=blogpost", "label='x'"}
ConstructorArgs ==
    [space : Spaces, page_id : PageIds, index_recursively : BOOLEAN,
     cql_query : CqlQueries]

\* the arguments' defaults: space="", page_id="", index_recursively=False,
\* cql_query=None
DefaultArgs ==
    [space |-> <<>>, page_id |-> "", index_recursively |-> FALSE, cql_query |-> None]

\* base_cql_page_query before __init__ has assigned it
Unset == "<unset>"

VARIABLES
    args,                   \* the arguments __init__ was called with
    base_cql_page_query,    \* self.base_cql_page_query
    batch_size,             \* self.batch_size
    credentials_provider,   \* self.credentials_provider
    confluence_client,      \* self._confluence_client: None or the provider it was built from
    connected,              \* history: the providers whose set_credentials_provider call completed
    last_call               \* history: the last set_credentials_provider or
                            \* validate_connector_settings call, its input and what it raised

cvars == <<args, base_cql_page_query, batch_size, credentials_provider,
           confluence_client, connected, last_call>>

VARIABLES
    op,                     \* the fetch in progress: "none", "load", "poll" or "slim"
    pc,                     \* the generator's position
    doc_batch,              \* _fetch_document_batches: doc_batch
    confluence_page_ids,    \* _fetch_document_batches: confluence_page_ids
    page_index,             \* _fetch_document_batches: position of the loop over confluence_page_ids
    doc_metadata_list,      \* retrieve_all_slim_documents: doc_metadata_list
    page,                   \* retrieve_all_slim_documents: the page of the current iteration (<<>>: none yet)
    received,               \* history: the records the source has returned to this fetch
    callback,               \* retrieve_all_slim_documents: whether a callback was supplied
    emitted,                \* history: the batches yielded so far by this generator
    err,                    \* the exception that ended this generator, or None
    served,                 \* history: the number of records the source has returned to this fetch
    att_served,             \* history: the number of attachments returned for the current page
    queried,                \* history: the page ids whose attachments were queried
    stop_calls,             \* history: the number of callback.should_stop() calls
    stop_requested,         \* history: whether should_stop() has answered True
    pages_processed         \* history: the number of pages whose attachments were all handled

gvars == <<op, pc, doc_batch, confluence_page_ids, page_index, doc_metadata_list,
           page, received, callback, emitted, err, served, att_served, queried, stop_calls,
           stop_requested, pages_processed>>

vars == <<cvars, gvars>>

\* a connector with no fetch started
NoFetch ==
    /\ op = "none"
    /\ pc = "none"
    /\ doc_batch = <<>>
    /\ confluence_page_ids = <<>>
    /\ page_index = 0
    /\ doc_metadata_list = <<>>
    /\ page = <<>>
    /\ received = <<>>
    /\ callback = FALSE
    /\ emitted = <<>>
    /\ err = None
    /\ served = 0
    /\ att_served = 0
    /\ queried = <<>>
    /\ stop_calls = 0
    /\ stop_requested = FALSE
    /\ pages_processed = 0

\* no call made yet
NoCall == [call |-> "none", input |-> None, raised |-> None]

(***************************************************************************)
(* __init__                                                                *)
(***************************************************************************)
\* the arguments are drawn, __init__ has yet to run
InitQuery ==
    /\ args \in ConstructorArgs
    /\ base_cql_page_query = Unset
    /\ batch_size \in 1..MaxBatchSize
    /\ credentials_provider = None
    /\ confluence_client = None
    /\ connected = {}
    /\ last_call = NoCall
    /\ NoFetch

\* __init__: the page query is built from the arguments
Construct ==
    /\ base_cql_page_query = Unset
    /\ base_cql_page_query' =
           BaseCqlPageQuery(args.space, args.page_id, args.index_recursively,
                            args.cql_query)
    /\ UNCHANGED <<args, batch_size, credentials_provider, confluence_client,
                   connected, last_call, gvars>>

\* the connector as constructed with default filters and some batch_size >= 1
Init ==
    /\ args = DefaultArgs
    /\ base_cql_page_query =
           BaseCqlPageQuery(args.space, args.page_id, args.index_recursively,
                            args.cql_query)
    /\ batch_size \in 1..MaxBatchSize
    /\ credentials_provider = None
    /\ confluence_client = None
    /\ connected = {}
    /\ last_call = NoCall
    /\ NoFetch

(***************************************************************************)
(* Control.  A generator runs only inside a pull; the caller can call the  *)
(* connector's methods only while no generator is running.                 *)
(***************************************************************************)
\* positions at which the generator is suspended at a yield
Suspended == {"created", "yield_pages", "yield_attachments", "yield_slice", "yield_final"}
\* positions at which the caller has control
AtCaller == {"none", "done", "raised"} \cup Suspended

(***************************************************************************)
(* set_credentials_provider                                                *)
(***************************************************************************)
Providers == {"p1", "p2"}
\* how OnyxConfluence's _probe_connection and _initialize_connection end
ConnectOutcomes == {"ok", "probe_raises", "initialize_raises"}

\* set_credentials_provider with the client attached before the probe
SetCredentialsProviderAttachFirst(provider, outcome) ==
    /\ pc \in AtCaller
    /\ credentials_provider' = provider
    /\ confluence_client' = provider
    /\ connected' = IF outcome = "ok" THEN connected \cup {provider} ELSE connected
    /\ last_call' = [call |-> "set_credentials_provider", input |-> provider,
                     raised |-> IF outcome = "ok" THEN None ELSE outcome]
    /\ UNCHANGED <<args, base_cql_page_query, batch_size, gvars>>

\* set_credentials_provider(provider): the provider is stored, a client is
\* built, probed and initialized, and only then attached
SetCredentialsProvider(provider, outcome) ==
    /\ pc \in AtCaller
    /\ credentials_provider' = provider
    /\ IF outcome = "ok"
       THEN /\ confluence_client' = provider
            /\ connected' = connected \cup {provider}
       ELSE UNCHANGED <<confluence_client, connected>>
    /\ last_call' = [call |-> "set_credentials_provider", input |-> provider,
                     raised |-> IF outcome = "ok" THEN None ELSE outcome]
    /\ UNCHANGED <<args, base_cql_page_query, batch_size, gvars>>

(***************************************************************************)
(* validate_connector_settings                                             *)
(***************************************************************************)
\* the responses an HTTPError can carry: none (<<>>) or a requests.Response
Responses == {<<>>} \cup {<<[status_code |-> s]>> : s \in {401, 403, 404, 500}}

\* what get_all_spaces(limit=1) can return: None, or a dict with these keys
\* and, under "results", these spaces
SpacesReturned ==
    { [is_none |-> TRUE, keys |-> {}, results |-> <<>>],
      [is_none |-> FALSE, keys |-> {}, results |-> <<>>],
      [is_none |-> FALSE, keys |-> {"size"}, results |-> <<>>],
      [is_none |-> FALSE, keys |-> {"results", "size"}, results |-> <<>>],
      [is_none |-> FALSE, keys |-> {"results", "size"}, results |-> <<"ENG">>] }

\* how the probe get_all_spaces(limit=1) ends
ProbeOutcomes ==
    {[kind |-> "HTTPError", response |-> r, spaces |-> <<>>] : r \in Responses}
    \cup {[kind |-> "Exception", response |-> <<>>, spaces |-> <<>>]}
    \cup {[kind |-> "return", response |-> <<>>, spaces |-> <<s>>] : s \in SpacesReturned}

\* bool(e.response): None is falsy, and a requests.Response is truthy exactly
\* when it is ok, that is when its status_code is below 400
\* (requests.models.Response.__bool__ returns self.ok)
ResponseBool(response) ==
    /\ response # <<>>
    /\ response[1].status_code < 400

\* status_code = e.response.status_code if e.response else None
\* (<<>> is None)
StatusCode(response) ==
    IF ResponseBool(response) THEN <<response[1].status_code>> ELSE <<>>

\* not spaces or not spaces.get("results")
NoSpaces(spaces) ==
    \/ spaces.is_none
    \/ spaces.keys = {}
    \/ "results" \notin spaces.keys
    \/ spaces.results = <<>>

\* the exception validate_connector_settings raises for a probe outcome, with
\* a client attached; None when it returns normally
ValidateRaises(probe) ==
    IF probe.kind = "HTTPError" THEN
        IF StatusCode(probe.response) = <<401>> THEN "CredentialExpiredError"
        ELSE IF StatusCode(probe.response) = <<403>> THEN "InsufficientPermissionsError"
        ELSE "UnexpectedError"
    ELSE IF probe.kind = "Exception" THEN "UnexpectedError"
    ELSE IF NoSpaces(probe.spaces[1]) THEN "ConnectorValidationError"
    ELSE None

\* validate_connector_settings()
ValidateConnectorSettings(probe) ==
    /\ pc \in AtCaller
    /\ last_call' =
           IF confluence_client = None
           THEN [call |-> "validate_connector_settings", input |-> None,
                 raised |-> "ConnectorMissingCredentialError"]
           ELSE [call |-> "validate_connector_settings", input |-> probe,
                 raised |-> ValidateRaises(probe)]
    /\ UNCHANGED <<args, base_cql_page_query, batch_size, credentials_provider,
                   confluence_client, connected, gvars>>

(***************************************************************************)
(* Starting a fetch.  Calling a generator function runs none of its body.  *)
(***************************************************************************)
\* a new generator for fetch o, suspended before its first statement
StartFetch(o, cb) ==
    /\ pc \in AtCaller
    /\ op' = o
    /\ pc' = "created"
    /\ callback' = cb
    /\ doc_batch' = <<>>
    /\ confluence_page_ids' = <<>>
    /\ page_index' = 0
    /\ doc_metadata_list' = <<>>
    /\ page' = <<>>
    /\ received' = <<>>
    /\ emitted' = <<>>
    /\ err' = None
    /\ served' = 0
    /\ att_served' = 0
    /\ queried' = <<>>
    /\ stop_calls' = 0
    /\ stop_requested' = FALSE
    /\ pages_processed' = 0
    /\ UNCHANGED cvars

\* load_from_state()
LoadFromState == StartFetch("load", FALSE)

\* poll_source(start, end): the time bounds only narrow the page query, and
\* the records the source returns are arbitrary in either case
PollSource == StartFetch("poll", FALSE)

\* retrieve_all_slim_documents(callback=cb)
RetrieveAllSlimDocuments(cb) == StartFetch("slim", cb)

FullFetch == op \in {"load", "poll"}

(***************************************************************************)
(* Records of the source and their conversion.  The k-th page a page       *)
(* pagination returns has id k; the n-th attachment the attachment         *)
(* pagination of page p returns has the link <<p, n>>.                     *)
(***************************************************************************)
\* what the page pagination of the full fetch can return as its k-th record:
\* a page, or (under a raw cql_query) content of another type
PageObjects(k) ==
    {[type |-> t, id |-> k, webui |-> <<0, k>>, content |-> "text"] :
        t \in {"page", "blogpost"}}

\* what the attachment pagination of page p can return as its n-th record;
\* content is what attachment_to_content extracts from it
AttachmentObjects(p, n) ==
    {[type |-> "attachment", id |-> n, webui |-> <<p, n>>, content |-> c] :
        c \in {None, "text"}}

\* build_confluence_document_id(wiki_base, webui, is_cloud): one id per link
BuildConfluenceDocumentId(webui) == webui

\* _convert_object_to_document: <<>> for None, else <<the Document>>
ConvertObjectToDocument(confluence_object) ==
    LET object_text ==
            IF confluence_object.type = "page" THEN confluence_object.content
            ELSE IF confluence_object.type = "attachment"
                 THEN confluence_object.content
            ELSE None
    IN  IF object_text = None THEN <<>>
        ELSE <<[id |-> BuildConfluenceDocumentId(confluence_object.webui),
                text |-> object_text]>>

\* AppendDoc with the document put in front of the batch
PrependDoc(batch, doc) == IF doc # <<>> THEN <<doc[1]>> \o batch ELSE batch

\* if doc is not None: doc_batch.append(doc)
AppendDoc(batch, doc) == IF doc # <<>> THEN Append(batch, doc[1]) ELSE batch

\* BatchFull with > for >=
BatchOverfull(batch) == Len(batch) > batch_size

\* len(doc_batch) >= self.batch_size
BatchFull(batch) == Len(batch) >= batch_size

\* FlushRemaining with the trailing batch never emitted
FlushNever(batch) == FALSE

\* if doc_batch: (the trailing batch is emitted)
FlushRemaining(batch) == batch # <<>>

(***************************************************************************)
(* _fetch_document_batches                                                 *)
(***************************************************************************)
\* the first pull: the statements before the page loop, up to the
\* confluence_client property that the loop header reads
FetchBegin ==
    /\ FullFetch
    /\ pc = "created"
    /\ IF confluence_client = None
       THEN /\ pc' = "raised"
            /\ err' = "ConnectorMissingCredentialError"
       ELSE /\ pc' = "pages"
            /\ err' = err
    /\ UNCHANGED <<cvars, op, doc_batch, confluence_page_ids, page_index,
                   doc_metadata_list, page, received, callback, emitted, served,
                   att_served, queried, stop_calls, stop_requested, pages_processed>>

\* one iteration of the page loop
FetchPage(confluence_object) ==
    /\ FullFetch
    /\ pc = "pages"
    /\ served < MaxRecords
    /\ served' = served + 1
    /\ received' = Append(received, confluence_object)
    /\ confluence_page_ids' = Append(confluence_page_ids, confluence_object.id)
    /\ LET batch == AppendDoc(doc_batch, ConvertObjectToDocument(confluence_object))
       IN  /\ doc_batch' = batch
           /\ IF BatchFull(batch)
              THEN /\ emitted' = Append(emitted, batch)
                   /\ pc' = "yield_pages"
              ELSE /\ emitted' = emitted
                   /\ pc' = "pages"
    /\ UNCHANGED <<cvars, op, page_index, doc_metadata_list, page,
                   callback, err, att_served, queried, stop_calls, stop_requested,
                   pages_processed>>

\* the attachment loop moves to the i-th collected page id and queries its
\* attachments; past the last id it reaches the statement after the loop
EnterPageId(i) ==
    /\ page_index' = i
    /\ att_served' = 0
    /\ IF i <= Len(confluence_page_ids)
       THEN /\ pc' = "attachments"
            /\ queried' = Append(queried, confluence_page_ids[i])
       ELSE /\ pc' = "remaining"
            /\ queried' = queried

\* the page pagination is exhausted
FetchPagesExhausted ==
    /\ FullFetch
    /\ pc = "pages"
    /\ EnterPageId(1)
    /\ UNCHANGED <<cvars, op, doc_batch, confluence_page_ids, doc_metadata_list,
                   page, received, callback, emitted, err, served, stop_calls,
                   stop_requested, pages_processed>>

\* one iteration of the inner attachment loop
FetchAttachment(confluence_object) ==
    /\ FullFetch
    /\ pc = "attachments"
    /\ served < MaxRecords
    /\ served' = served + 1
    /\ received' = Append(received, confluence_object)
    /\ att_served' = att_served + 1
    /\ LET batch == AppendDoc(doc_batch, ConvertObjectToDocument(confluence_object))
       IN  /\ doc_batch' = batch
           /\ IF BatchFull(batch)
              THEN /\ emitted' = Append(emitted, batch)
                   /\ pc' = "yield_attachments"
              ELSE /\ emitted' = emitted
                   /\ pc' = "attachments"
    /\ UNCHANGED <<cvars, op, confluence_page_ids, page_index, doc_metadata_list,
                   page, callback, err, queried, stop_calls,
                   stop_requested, pages_processed>>

\* the attachment pagination of the current page id is exhausted
FetchAttachmentsExhausted ==
    /\ FullFetch
    /\ pc = "attachments"
    /\ EnterPageId(page_index + 1)
    /\ UNCHANGED <<cvars, op, doc_batch, confluence_page_ids, doc_metadata_list,
                   page, received, callback, emitted, err, served, stop_calls,
                   stop_requested, pages_processed>>

\* the next pull after a yield inside a loop: doc_batch = []
FetchResume ==
    /\ FullFetch
    /\ pc \in {"yield_pages", "yield_attachments"}
    /\ doc_batch' = <<>>
    /\ pc' = IF pc = "yield_pages" THEN "pages" ELSE "attachments"
    /\ UNCHANGED <<cvars, op, confluence_page_ids, page_index, doc_metadata_list,
                   page, received, callback, emitted, err, served, att_served,
                   queried, stop_calls, stop_requested, pages_processed>>

\* after the loops: a non-empty doc_batch is yielded, else the generator returns
FetchRemaining ==
    /\ FullFetch
    /\ pc = "remaining"
    /\ IF FlushRemaining(doc_batch)
       THEN /\ emitted' = Append(emitted, doc_batch)
            /\ pc' = "yield_final"
       ELSE /\ emitted' = emitted
            /\ pc' = "done"
    /\ UNCHANGED <<cvars, op, doc_batch, confluence_page_ids, page_index,
                   doc_metadata_list, page, received, callback, err, served,
                   att_served, queried, stop_calls, stop_requested, pages_processed>>

\* the pull after the last yield: the generator returns
ReturnAfterFinal ==
    /\ pc = "yield_final"
    /\ pc' = "done"
    /\ UNCHANGED <<cvars, op, doc_batch, confluence_page_ids, page_index,
                   doc_metadata_list, page, received, callback, emitted, err,
                   served, att_served, queried, stop_calls, stop_requested, pages_processed>>

\* a pagination, a conversion or a content extraction raises: nothing in the
\* fetch routines catches it, the generator ends with it
SourceError ==
    /\ pc \in {"pages", "attachments"}
    /\ pc' = "raised"
    /\ err' = "SourceError"
    /\ UNCHANGED <<cvars, op, doc_batch, confluence_page_ids, page_index,
                   doc_metadata_list, page, received, callback, emitted, served,
                   att_served, queried, stop_calls, stop_requested, pages_processed>>

(***************************************************************************)
(* retrieve_all_slim_documents                                             *)
(***************************************************************************)
\* what the page pagination of the slim fetch can return as its k-th record:
\* restrictions is page.get("restrictions"), space_key is
\* page.get("space", {}).get("key"), ancestors is page.get("ancestors", [])
SlimPageObjects(k) ==
    {[id |-> k, webui |-> <<0, k>>, restrictions |-> x[1], space_key |-> x[2],
      ancestors |-> "[]"] :
        x \in {<<None, "A">>, <<"R1", "A">>}}

\* what the attachment pagination of page p can return as its n-th record;
\* valid_filetype is what validate_attachment_filetype answers for it
SlimAttachmentObjects(p, n) ==
    {[webui |-> <<p, n>>, valid_filetype |-> x[1], restrictions |-> x[2],
      space_key |-> x[3]] :
        x \in {<<FALSE, None, None>>, <<TRUE, None, None>>, <<TRUE, EmptyDict, "B">>,
                <<TRUE, "R2", "B">>}}

\* page_perm_sync_data
PagePermSyncData(pg) ==
    [restrictions |-> Or(pg.restrictions, EmptyDict),
     space_key |-> pg.space_key,
     ancestors |-> Or(pg.ancestors, "[]")]

\* AttachmentPermSyncData with the parent's restrictions never taken over
AttachmentPermSyncDataOwnOnly(att, pg) ==
    [restrictions |-> Or(att.restrictions, EmptyDict),
     space_key |-> IF ~Truthy(att.space_key) THEN pg.space_key ELSE att.space_key]

\* attachment_perm_sync_data of attachment att of page pg
AttachmentPermSyncData(att, pg) ==
    LET attachment_restrictions ==
            IF ~Truthy(att.restrictions) THEN pg.restrictions ELSE att.restrictions
        attachment_space_key ==
            IF ~Truthy(att.space_key) THEN pg.space_key ELSE att.space_key
    IN  [restrictions |-> Or(attachment_restrictions, EmptyDict),
         space_key |-> attachment_space_key]

\* SlimDocument(id=build_confluence_document_id(...), perm_sync_data=...)
SlimDocument(webui, perm_sync_data) ==
    [id |-> BuildConfluenceDocumentId(webui), perm_sync_data |-> perm_sync_data]

\* YieldFinal with the last batch emitted only when it is not empty
YieldFinalIfNonEmpty(list) == list # <<>>

\* the last statement, yield doc_metadata_list, stands under no condition
YieldFinal(list) == TRUE

\* the first pull: the statements before the page loop, up to the
\* confluence_client property that the loop header reads
SlimBegin ==
    /\ op = "slim"
    /\ pc = "created"
    /\ IF confluence_client = None
       THEN /\ pc' = "raised"
            /\ err' = "ConnectorMissingCredentialError"
       ELSE /\ pc' = "pages"
            /\ err' = err
    /\ UNCHANGED <<cvars, op, doc_batch, confluence_page_ids, page_index,
                   doc_metadata_list, page, received, callback, emitted, served,
                   att_served, queried, stop_calls, stop_requested, pages_processed>>

\* the page loop receives a page: its SlimDocument is appended and its
\* attachments are queried
SlimPage(pg) ==
    /\ op = "slim"
    /\ pc = "pages"
    /\ served < MaxRecords
    /\ served' = served + 1
    /\ att_served' = 0
    /\ page' = <<pg>>
    /\ received' = Append(received, pg)
    /\ doc_metadata_list' =
           Append(doc_metadata_list, SlimDocument(pg.webui, PagePermSyncData(pg)))
    /\ queried' = Append(queried, pg.id)
    /\ pc' = "attachments"
    /\ UNCHANGED <<cvars, op, doc_batch, confluence_page_ids, page_index, callback,
                   emitted, err, stop_calls, stop_requested, pages_processed>>

\* one iteration of the attachment loop
SlimAttachment(att) ==
    /\ op = "slim"
    /\ pc = "attachments"
    /\ served < MaxRecords
    /\ served' = served + 1
    /\ att_served' = att_served + 1
    /\ received' = Append(received, att)
    /\ doc_metadata_list' =
           IF ~att.valid_filetype THEN doc_metadata_list
           ELSE Append(doc_metadata_list,
                       SlimDocument(att.webui, AttachmentPermSyncData(att, page[1])))
    /\ UNCHANGED <<cvars, op, pc, doc_batch, confluence_page_ids, page_index, page,
                   callback, emitted, err, queried, stop_calls, stop_requested,
                   pages_processed>>

\* the attachment pagination of the page is exhausted: a list longer than
\* _SLIM_DOC_BATCH_SIZE has its first _SLIM_DOC_BATCH_SIZE entries yielded
SlimAttachmentsExhausted ==
    /\ op = "slim"
    /\ pc = "attachments"
    /\ pages_processed' = pages_processed + 1
    /\ IF Len(doc_metadata_list) > _SLIM_DOC_BATCH_SIZE
       THEN /\ emitted' = Append(emitted, Take(doc_metadata_list, _SLIM_DOC_BATCH_SIZE))
            /\ pc' = "yield_slice"
       ELSE /\ emitted' = emitted
            /\ pc' = "pages"
    /\ UNCHANGED <<cvars, op, doc_batch, confluence_page_ids, page_index,
                   doc_metadata_list, page, received, callback, err, served,
                   att_served, queried, stop_calls, stop_requested>>

\* SlimResume with the answer of should_stop() ignored
SlimResumeIgnoringStop(stop) ==
    /\ op = "slim"
    /\ pc = "yield_slice"
    /\ doc_metadata_list' = Drop(doc_metadata_list, _SLIM_DOC_BATCH_SIZE)
    /\ stop_calls' = IF callback THEN stop_calls + 1 ELSE stop_calls
    /\ stop_requested' = (callback /\ stop)
    /\ pc' = "pages"
    /\ UNCHANGED <<cvars, op, doc_batch, confluence_page_ids, page_index, page,
                   received, callback, emitted, err, served, att_served, queried,
                   pages_processed>>

\* the next pull after a slice was yielded: the remainder is kept, and a
\* supplied callback is asked whether to stop
SlimResume(stop) ==
    /\ op = "slim"
    /\ pc = "yield_slice"
    /\ doc_metadata_list' = Drop(doc_metadata_list, _SLIM_DOC_BATCH_SIZE)
    /\ IF callback
       THEN /\ stop_calls' = stop_calls + 1
            /\ stop_requested' = stop
            /\ IF stop
               THEN /\ pc' = "raised"
                    /\ err' = "RuntimeError: Stop signal detected"
               ELSE /\ pc' = "pages"
                    /\ err' = err
       ELSE /\ pc' = "pages"
            /\ UNCHANGED <<err, stop_calls, stop_requested>>
    /\ UNCHANGED <<cvars, op, doc_batch, confluence_page_ids, page_index, page,
                   received, callback, emitted, served, att_served, queried,
                   pages_processed>>

\* the page pagination is exhausted: yield doc_metadata_list
SlimPagesExhausted ==
    /\ op = "slim"
    /\ pc = "pages"
    /\ IF YieldFinal(doc_metadata_list)
       THEN /\ emitted' = Append(emitted, doc_metadata_list)
            /\ pc' = "yield_final"
       ELSE /\ emitted' = emitted
            /\ pc' = "done"
    /\ UNCHANGED <<cvars, op, doc_batch, confluence_page_ids, page_index,
                   doc_metadata_list, page, received, callback, err, served,
                   att_served, queried, stop_calls, stop_requested, pages_processed>>

(***************************************************************************)
(* Specifications.                                                         *)
(***************************************************************************)
\* construction alone
NextQuery == Construct

SpecQuery == InitQuery /\ [][NextQuery]_vars

\* credentials, validation, and the first pull of each fetch
NextCred ==
    \/ \E provider \in Providers, outcome \in ConnectOutcomes :
           SetCredentialsProvider(provider, outcome)
    \/ \E probe \in ProbeOutcomes : ValidateConnectorSettings(probe)
    \/ LoadFromState
    \/ PollSource
    \/ \E cb \in BOOLEAN : RetrieveAllSlimDocuments(cb)
    \/ FetchBegin
    \/ SlimBegin

SpecCred == Init /\ [][NextCred]_vars

\* the connector after set_credentials_provider("p1") has completed
InitConnected ==
    /\ args = DefaultArgs
    /\ base_cql_page_query =
           BaseCqlPageQuery(args.space, args.page_id, args.index_recursively,
                            args.cql_query)
    /\ batch_size \in 1..MaxBatchSize
    /\ credentials_provider = "p1"
    /\ confluence_client = "p1"
    /\ connected = {"p1"}
    /\ last_call = [call |-> "set_credentials_provider", input |-> "p1", raised |-> None]
    /\ NoFetch

\* the fetches, on a connector with a client attached
NextFetch ==
    \/ LoadFromState
    \/ PollSource
    \/ \E cb \in BOOLEAN : RetrieveAllSlimDocuments(cb)
    \/ FetchBegin
    \/ \E o \in PageObjects(Len(confluence_page_ids) + 1) : FetchPage(o)
    \/ FetchPagesExhausted
    \/ \E o \in AttachmentObjects(IF page_index \in 1..Len(confluence_page_ids)
                                  THEN confluence_page_ids[page_index] ELSE 0,
                                  att_served + 1) : FetchAttachment(o)
    \/ FetchAttachmentsExhausted
    \/ FetchResume
    \/ FetchRemaining
    \/ ReturnAfterFinal
    \/ SourceError
    \/ SlimBegin
    \/ \E pg \in SlimPageObjects(Len(queried) + 1) : SlimPage(pg)
    \/ \E att \in SlimAttachmentObjects(IF page = <<>> THEN 0 ELSE page[1].id,
                                        att_served + 1) : SlimAttachment(att)
    \/ SlimAttachmentsExhausted
    \/ \E stop \in BOOLEAN : SlimResume(stop)
    \/ SlimPagesExhausted

SpecFetch == InitConnected /\ [][NextFetch]_vars

\* every method of the connector
Next == NextCred \/ NextFetch

Spec == Init /\ [][Next]_vars

(***************************************************************************)
(* Properties.                                                             *)
(***************************************************************************)
\* the batches of a sequence of batches, concatenated
RECURSIVE Flatten(_)
Flatten(batches) ==
    IF batches = <<>> THEN <<>> ELSE Head(batches) \o Flatten(Tail(batches))

\* a document or SlimDocument made from a page (its link has no container)
IsPageDoc(d) == d.id[1] = 0

\* the number of entries of sequence q that satisfy Test
Count(q, Test(_)) == Cardinality({i \in 1..Len(q) : Test(q[i])})

\* C1: every batch the full fetch has emitted holds at most batch_size
\* documents, and every batch but the last holds exactly batch_size.
C1_BatchSizeBound ==
    FullFetch =>
        \A i \in 1..Len(emitted) :
            /\ Len(emitted[i]) <= batch_size
            /\ i < Len(emitted) => Len(emitted[i]) = batch_size

\* a full fetch has run to its end and emitted two batches, the last one
\* smaller than batch_size
C1_Witness ==
    /\ FullFetch
    /\ pc = "done"
    /\ Len(emitted) = 2
    /\ batch_size >= 2
    /\ Len(emitted[2]) < batch_size

\* C2: in the concatenation of the batches of a full fetch every page
\* document precedes every attachment document, page documents are in the
\* order the page pagination returned them, attachment documents are in the
\* order of their parent pages and, under one parent, in the order the
\* attachment pagination returned them.
C2_PagesThenAttachmentsInOrder ==
    FullFetch =>
        LET docs == Flatten(emitted)
        IN  \A i, j \in 1..Len(docs) :
                i < j =>
                    /\ IsPageDoc(docs[j]) => IsPageDoc(docs[i])
                    /\ (IsPageDoc(docs[i]) /\ IsPageDoc(docs[j]))
                           => docs[i].id[2] < docs[j].id[2]
                    /\ (~IsPageDoc(docs[i]) /\ ~IsPageDoc(docs[j]))
                           => \/ docs[i].id[1] < docs[j].id[1]
                              \/ /\ docs[i].id[1] = docs[j].id[1]
                                 /\ docs[i].id[2] < docs[j].id[2]

\* a full fetch has run to its end and emitted, over more than one batch, two
\* page documents and attachment documents of two different pages
C2_Witness ==
    /\ FullFetch
    /\ pc = "done"
    /\ Len(emitted) >= 2
    /\ LET docs == Flatten(emitted)
       IN  /\ Count(docs, IsPageDoc) >= 2
           /\ \E i, j \in 1..Len(docs) :
                  /\ ~IsPageDoc(docs[i])
                  /\ ~IsPageDoc(docs[j])
                  /\ docs[i].id[1] # docs[j].id[1]

\* the documents the conversion yields for the records of q, in q's order
RECURSIVE DocumentsOf(_)
DocumentsOf(q) ==
    IF q = <<>> THEN <<>>
    ELSE ConvertObjectToDocument(Head(q)) \o DocumentsOf(Tail(q))

\* the ids of the records of q that the page pagination returned, in q's order
RECURSIVE PageIdsOf(_)
PageIdsOf(q) ==
    IF q = <<>> THEN <<>>
    ELSE (IF Head(q).webui[1] = 0 THEN <<Head(q).id>> ELSE <<>>) \o PageIdsOf(Tail(q))

\* C10: when a full fetch has run to completion, the concatenation of its
\* batches is exactly the documents of the records whose conversion yielded
\* one (so a record that yielded none is in no batch, and the run ended
\* without error), no batch is empty, and the attachments of every page
\* returned were queried, whether or not the page yielded a document.
C10_ExactlyTheConvertedRecords ==
    (FullFetch /\ pc = "done") =>
        /\ err = None
        /\ Flatten(emitted) = DocumentsOf(received)
        /\ \A i \in 1..Len(emitted) : emitted[i] # <<>>
        /\ queried = PageIdsOf(received)

\* a full fetch has run to completion over a page that yielded no document
\* and whose attachments were queried: one of them yielded a document, one
\* was unparseable
C10_Witness ==
    /\ FullFetch
    /\ pc = "done"
    /\ \E i, j, k \in 1..Len(received) :
           /\ received[i].type = "blogpost"
           /\ received[j].type = "attachment"
           /\ received[j].webui[1] = received[i].id
           /\ received[j].content = None
           /\ received[k].type = "attachment"
           /\ received[k].webui[1] = received[i].id
           /\ received[k].content # None
    /\ emitted # <<>>

\* every SlimDocument of the slim fetch: those emitted, and those in the list
SlimDocuments ==
    UNION {{emitted[b][i] : i \in 1..Len(emitted[b])} : b \in 1..Len(emitted)}
    \cup {doc_metadata_list[i] : i \in 1..Len(doc_metadata_list)}

\* the record a SlimDocument was made from
RecordOf(d) == CHOOSE r \in {received[i] : i \in 1..Len(received)} : r.webui = d.id

\* the SlimDocument of the parent page of attachment SlimDocument d
ParentOf(d) == CHOOSE e \in SlimDocuments : e.id = <<0, d.id[1]>>

\* the attachment SlimDocuments whose record carries no restrictions of its
\* own and whose parent's SlimDocument is still at hand
InheritingAttachments ==
    {d \in SlimDocuments :
        /\ ~IsPageDoc(d)
        /\ ~Truthy(RecordOf(d).restrictions)
        /\ \E e \in SlimDocuments : e.id = <<0, d.id[1]>>}

\* C4 as stated: an attachment SlimDocument whose record carries no
\* restrictions of its own has the parent page's restrictions and the parent
\* page's space key, whatever space the attachment record carries.
C4_AsStated ==
    op = "slim" =>
        \A d \in InheritingAttachments :
            /\ d.perm_sync_data.restrictions = ParentOf(d).perm_sync_data.restrictions
            /\ d.perm_sync_data.space_key = ParentOf(d).perm_sync_data.space_key

\* C4, amended: such a SlimDocument has the parent page's restrictions; its
\* space key is the attachment record's own space key when the record carries
\* one, and the parent page's space key only when it carries none.
C4_InheritsRestrictionsOwnSpaceFirst ==
    op = "slim" =>
        \A d \in InheritingAttachments :
            /\ d.perm_sync_data.restrictions = ParentOf(d).perm_sync_data.restrictions
            /\ d.perm_sync_data.space_key =
                   IF Truthy(RecordOf(d).space_key)
                   THEN RecordOf(d).space_key
                   ELSE ParentOf(d).perm_sync_data.space_key

\* the slim fetch has emitted, in one batch, a restricted page and two of its
\* attachments without restrictions of their own: one with a space key of
\* its own, one without
C4_Witness ==
    /\ op = "slim"
    /\ \E b \in 1..Len(emitted) :
           \E i, j, k \in 1..Len(emitted[b]) :
               /\ emitted[b][i].id[1] = 0
               /\ emitted[b][i].perm_sync_data.restrictions = "R1"
               /\ emitted[b][j] \in InheritingAttachments
               /\ emitted[b][k] \in InheritingAttachments
               /\ emitted[b][j].id[1] = emitted[b][i].id[2]
               /\ emitted[b][k].id[1] = emitted[b][i].id[2]
               /\ Truthy(RecordOf(emitted[b][j]).space_key)
               /\ ~Truthy(RecordOf(emitted[b][k]).space_key)

\* C5 as stated: every batch the slim fetch emits, the final one included,
\* holds at most _SLIM_DOC_BATCH_SIZE SlimDocuments.
C5_SlimBatchBound ==
    op = "slim" =>
        \A i \in 1..Len(emitted) : Len(emitted[i]) <= _SLIM_DOC_BATCH_SIZE

\* the batches the slim fetch has yielded inside its page loop
SlicesYielded ==
    IF pc \in {"yield_final", "done"} THEN Len(emitted) - 1 ELSE Len(emitted)

\* C6 as stated: with a callback, should_stop has been consulted once for
\* each page processed.
C6_AsStated ==
    (op = "slim" /\ callback /\ pc \in {"pages", "yield_final", "done"})
        => stop_calls = pages_processed

\* C6, amended: with a callback, should_stop is consulted once for each batch
\* yielded inside the page loop, when the fetch is resumed after that yield
\* (so only for a page after whose attachments the list held more than
\* _SLIM_DOC_BATCH_SIZE entries); an answer to stop ends the fetch with the
\* stop signal before any further page is received; without a callback, and
\* in the full fetch, nothing is consulted.
C6_ConsultedOncePerSlice ==
    /\ (op = "slim" /\ callback) =>
           /\ stop_calls = SlicesYielded - (IF pc = "yield_slice" THEN 1 ELSE 0)
           /\ stop_calls <= pages_processed
    /\ stop_requested =>
           /\ pc = "raised"
           /\ err = "RuntimeError: Stop signal detected"
           /\ Len(queried) = pages_processed
           /\ Len(emitted) = stop_calls
    /\ (FullFetch \/ ~callback) => (stop_calls = 0 /\ ~stop_requested)

\* a slim fetch with a callback was stopped at its first consultation, after
\* two pages were processed
C6_Witness ==
    /\ op = "slim"
    /\ callback
    /\ stop_requested
    /\ pc = "raised"
    /\ stop_calls = 1
    /\ pages_processed = 2

\* the ids of the records of q that the slim fetch makes a SlimDocument from
RECURSIVE SlimIdsOf(_)
SlimIdsOf(q) ==
    IF q = <<>> THEN <<>>
    ELSE (IF Head(q).webui[1] = 0 \/ Head(q).valid_filetype
          THEN <<Head(q).webui>> ELSE <<>>) \o SlimIdsOf(Tail(q))

\* the ids of the SlimDocuments of q
RECURSIVE IdsOf(_)
IdsOf(q) == IF q = <<>> THEN <<>> ELSE <<Head(q).id>> \o IdsOf(Tail(q))

\* C7: a slim fetch that reaches the end of its page loop has emitted, as its
\* last batch, the accumulated list, empty or not; the batches before it are
\* the slices of the loop, and together they hold every SlimDocument once:
\* the final batch was emitted exactly once and nothing after it.
C7_FinalBatchUnconditional ==
    (op = "slim" /\ pc \in {"yield_final", "done"}) =>
        /\ err = None
        /\ emitted # <<>>
        /\ emitted[Len(emitted)] = doc_metadata_list
        /\ \A i \in 1..(Len(emitted) - 1) : Len(emitted[i]) = _SLIM_DOC_BATCH_SIZE
        /\ IdsOf(Flatten(emitted)) = SlimIdsOf(received)

\* a slim fetch over no page at all has returned after one empty batch
C7_Witness ==
    /\ op = "slim"
    /\ pc = "done"
    /\ received = <<>>
    /\ emitted = << <<>> >>

\* C3 as stated: with a client attached, validate_connector_settings raises
\* CredentialExpiredError for an HTTPError whose response status is 401,
\* InsufficientPermissionsError when it is 403, UnexpectedError for any other
\* transport error, ConnectorValidationError when the probe returns no
\* space, and returns normally only when at least one space is returned.
C3_AsStated ==
    (/\ last_call.call = "validate_connector_settings"
     /\ last_call.raised # "ConnectorMissingCredentialError") =>
        LET probe == last_call.input
            status == IF probe.response = <<>> THEN 0
                      ELSE probe.response[1].status_code
        IN  /\ (probe.kind = "HTTPError" /\ status = 401)
                   => last_call.raised = "CredentialExpiredError"
            /\ (probe.kind = "HTTPError" /\ status = 403)
                   => last_call.raised = "InsufficientPermissionsError"
            /\ (\/ probe.kind = "HTTPError" /\ status \notin {401, 403}
                \/ probe.kind = "Exception")
                   => last_call.raised = "UnexpectedError"
            /\ (probe.kind = "return" /\ probe.spaces[1].results = <<>>)
                   => last_call.raised = "ConnectorValidationError"
            /\ last_call.raised = None
                   => (probe.kind = "return" /\ probe.spaces[1].results # <<>>)

\* C8: the base page query carries one filter, chosen by the priority raw
\* query > page id > space > none: a non-empty cql_query is the whole query;
\* otherwise a non-empty page_id adds only the id clause (id-or-ancestor when
\* recursive); otherwise a non-empty space adds only the escaped space clause;
\* otherwise the query is type=page.
C8_FilterPriority ==
    base_cql_page_query # Unset =>
        LET cql == args.cql_query
            id == args.page_id
            raw == cql \notin {None, ""}
        IN  /\ raw => base_cql_page_query = cql
            /\ (~raw /\ id # "" /\ args.index_recursively)
                   => base_cql_page_query =
                          "type=page and (ancestor='" \o id \o "' or id='" \o id \o "')"
            /\ (~raw /\ id # "" /\ ~args.index_recursively)
                   => base_cql_page_query = "type=page and id='" \o id \o "'"
            /\ (~raw /\ id = "" /\ args.space # <<>>)
                   => base_cql_page_query =
                          "type=page and space='" \o quote(args.space) \o "'"
            /\ (~raw /\ id = "" /\ args.space = <<>>)
                   => base_cql_page_query = "type=page"

\* a connector was constructed with a space and a page id and recursion,
\* and no raw query: only the id-or-ancestor clause is in the query
C8_Witness ==
    /\ args.cql_query = ""
    /\ args.page_id = "123"
    /\ args.index_recursively
    /\ args.space = <<"E", "N", "G">>
    /\ base_cql_page_query = "type=page and (ancestor='123' or id='123')"

\* C9, in every state: a client is attached exactly when some
\* set_credentials_provider call has completed, and it is the client of such
\* a call; with no client attached, a fetch that was pulled has raised the
\* missing-credentials error and emitted nothing, and a validation has raised
\* the missing-credentials error.
C9_State ==
    /\ (confluence_client # None) <=> (connected # {})
    /\ confluence_client # None => confluence_client \in connected
    /\ (confluence_client = None /\ pc \notin {"none", "created"}) =>
           /\ pc = "raised"
           /\ err = "ConnectorMissingCredentialError"
           /\ emitted = <<>>
    /\ (confluence_client = None /\ last_call.call = "validate_connector_settings")
           => last_call.raised = "ConnectorMissingCredentialError"

\* C9, in every step: the attached client changes only in a
\* set_credentials_provider call that raised nothing (so a call whose probe
\* or initialization fails leaves it as it was); the first pull of a fetch
\* raises the missing-credentials error, emitting nothing, exactly when no
\* client is attached.
C9_Step ==
    /\ confluence_client' # confluence_client =>
           last_call' = [call |-> "set_credentials_provider",
                         input |-> confluence_client', raised |-> None]
    /\ (pc = "created" /\ pc' # "created") =>
           IF confluence_client = None
           THEN /\ pc' = "raised"
                /\ err' = "ConnectorMissingCredentialError"
                /\ emitted' = <<>>
           ELSE pc' = "pages" /\ err' = None

\* C9: a client is attached if and only if an earlier
\* set_credentials_provider call completed its probe and its initialization;
\* a failed call leaves the attached client as it was; while no client is
\* attached, the first pull of a fetch and any validation raise the
\* missing-credentials error and no batch is emitted.
C9_ClientIffConnected == [](C9_State) /\ [][C9_Step]_vars

\* a fetch was pulled with no client attached and raised; then a
\* set_credentials_provider call completed, and a later one failed and left
\* the first client attached
C9_Witness ==
    /\ pc = "raised"
    /\ err = "ConnectorMissingCredentialError"
    /\ emitted = <<>>
    /\ confluence_client = "p1"
    /\ credentials_provider = "p2"
    /\ last_call.call = "set_credentials_provider"
    /\ last_call.raised = "probe_raises"

====
